---- MODULE Spec2Model ----
(***************************************************************************)
(* Model of code/conv_rbm.py: the CRBM class, its constructor and          *)
(* get_cost_updates (one step of CD-k / PCD-k).                            *)
(*                                                                         *)
(* Theano builds symbolic expressions.  An expression is modelled as the   *)
(* sequence of tokens of its prefix form, so that conv_downward(h) is      *)
(* <<"conv_down", W, vbias>> \o h and two expressions are equal exactly    *)
(* when they are the same graph.  Python tuples are 0-based, TLA+          *)
(* sequences 1-based: FS[1] of the source is FS[2] here.                   *)
(***************************************************************************)
EXTENDS Integers, Sequences, FiniteSets, TLC

VARIABLES pc, exc, args, self, created,
          k, persistent, chain_start, chain, chain_end,
          updates, monitoring_cost, store, nUpdates

vars == <<pc, exc, args, self, created, k, persistent, chain_start, chain,
          chain_end, updates, monitoring_cost, store, nUpdates>>

gcuVars == <<k, persistent, chain_start, chain, chain_end, updates,
             monitoring_cost>>

(* Bounds of the model. *)
MaxMaps == 2
MaxK == 2
MaxUpdates == 2

None == "None"
Unset == "unset"
NoExpr == <<>>
NoUpdates == [v \in {} |-> NoExpr]

(* [# of filters, # input feature maps, filter height, filter width] *)
FilterShapes == {<<n, c, 2, 2>> : n \in 1..MaxMaps, c \in 1..MaxMaps}
(* [batch_size, # input feature maps, image height, image width] *)
ImageShapes == {<<1, c, 3, 3>> : c \in 1..MaxMaps}

(* Shared variables that can exist: the ones a caller passes in, the ones  *)
(* the constructor creates, the persistent chain, the pseudo-likelihood    *)
(* bit index and the state of the random stream updated by scan.           *)
SharedVars == {"ext_W", "ext_hbias", "ext_vbias", "new_W", "new_hbias",
               "new_vbias", "persistent_chain", "bit_i_idx", "rng_state"}

(* Number of dimensions of a symbolic variable: a caller's 4D image batch  *)
(* or the TT.matrix placeholder of the constructor.                        *)
Ndim(v) == IF v = "x4" THEN 4 ELSE IF v = "matrix_input" THEN 2 ELSE 0

(* The object before __init__ has assigned anything.  n_visible is an      *)
(* attribute get_pseudo_likelihood_cost reads and __init__ never assigns.  *)
NewSelf == [input |-> Unset, W |-> Unset, hbias |-> Unset, vbias |-> Unset,
            FS |-> <<>>, IS |-> <<>>, FSinv |-> <<>>, ISinv |-> <<>>,
            theano_rng |-> Unset, params |-> <<>>, n_visible |-> Unset]

(* assert IS[1] == FS[1] *)
FeatureMapsMatch_swapped(FS, IS) == IS[2] = FS[1]
FeatureMapsMatch(FS, IS) == IS[2] = FS[2]

(* self.input = input; if not input: self.input = TT.matrix('input') *)
InputOf(input) == IF input = None THEN "matrix_input" ELSE input

(* self.FSinv and self.ISinv *)
FSinvOf(FS) == <<FS[2], FS[1], FS[3], FS[4]>>
ISinvOf(FS, IS) == <<IS[1], FS[1], IS[3] - FS[3] + 1, IS[4] - FS[4] + 1>>

(* theano.shared(...) calls of the constructor: a record per variable made *)
SharedMade(a) ==
    (IF a.W = None
       THEN {[name |-> "new_W", shape |-> a.FS, value |-> "uniform"]}
       ELSE {})
    \cup (IF a.hbias = None
       THEN {[name |-> "new_hbias", shape |-> <<a.FS[1]>>, value |-> "zeros"]}
       ELSE {})
    \cup (IF a.vbias = None
       THEN {[name |-> "new_vbias", shape |-> <<a.FS[2]>>, value |-> "zeros"]}
       ELSE {})

(* The object after a constructor that ran to its last line. *)
Constructed(a) ==
    LET W == IF a.W = None THEN "new_W" ELSE a.W
        hbias == IF a.hbias = None THEN "new_hbias" ELSE a.hbias
        vbias == IF a.vbias = None THEN "new_vbias" ELSE a.vbias
    IN [input |-> InputOf(a.input), W |-> W, hbias |-> hbias, vbias |-> vbias,
        FS |-> a.FS, IS |-> a.IS, FSinv |-> FSinvOf(a.FS),
        ISinv |-> ISinvOf(a.FS, a.IS), theano_rng |-> a.theano_rng,
        params |-> <<W, hbias, vbias>>, n_visible |-> Unset]

NoArgs == [input |-> None, FS |-> <<>>, IS |-> <<>>, W |-> None,
           hbias |-> None, vbias |-> None, numpy_rng |-> None,
           theano_rng |-> None]

Init ==
    /\ pc = "new"
    /\ exc = "none"
    /\ args = NoArgs
    /\ self = NewSelf
    /\ created = {}
    /\ k = 0
    /\ persistent = None
    /\ chain_start = NoExpr
    /\ chain = <<>>
    /\ chain_end = NoExpr
    /\ updates = NoUpdates
    /\ monitoring_cost = NoExpr
    /\ store = [v \in SharedVars |-> 0]
    /\ nUpdates = 0

(* CRBM.__init__(input, FS, IS, W, hbias, vbias, numpy_rng, theano_rng) *)
CRBM_init ==
    /\ pc = "new"
    /\ \E FS \in FilterShapes, IS \in ImageShapes, input \in {None, "x4"},
          W \in {None, "ext_W"}, hbias \in {None, "ext_hbias"},
          vbias \in {None, "ext_vbias"}, numpy_rng \in {None, "numpy_rng"},
          theano_rng \in {None, "theano_rng"} :
         LET a == [input |-> input, FS |-> FS, IS |-> IS, W |-> W,
                   hbias |-> hbias, vbias |-> vbias, numpy_rng |-> numpy_rng,
                   theano_rng |-> theano_rng]
         IN /\ args' = a
            /\ IF ~FeatureMapsMatch(FS, IS)
                 THEN (* the assert on the first line fails *)
                      /\ exc' = "AssertionError"
                      /\ pc' = "ctor_failed"
                      /\ UNCHANGED <<self, created>>
                 ELSE IF W = None /\ numpy_rng = None
                 THEN (* numpy_rng.uniform on None, after self.input is set *)
                      /\ exc' = "AttributeError"
                      /\ pc' = "ctor_failed"
                      /\ self' = [self EXCEPT !.input = InputOf(input)]
                      /\ UNCHANGED created
                 ELSE /\ exc' = "none"
                      /\ pc' = "ready"
                      /\ self' = Constructed(a)
                      /\ created' = SharedMade(a)
    /\ UNCHANGED <<gcuVars, store, nUpdates>>

(* conv.conv2d(v_sample, filters=self.W, ...) + self.hbias.dimshuffle(...) *)
conv_upward(v_sample) == <<"conv_up", self.W, self.hbias>> \o v_sample

(* conv.conv2d(h_sample, filters=flipped self.W, border_mode='full')       *)
(* + self.vbias.dimshuffle(...)                                            *)
conv_downward(h_sample) == <<"conv_down", self.W, self.vbias>> \o h_sample

(* TT.nnet.sigmoid and theano_rng.binomial(n=1, p=mean) *)
sigmoid(x) == <<"sigmoid">> \o x
binomial(mean) == <<"binomial">> \o mean

(* -sum(softplus(conv_upward(v))) - dot(sum(v, axis=(2,3)), vbias) *)
free_energy(v_sample) ==
    <<"neg_sum_softplus">> \o conv_upward(v_sample)
        \o <<"minus_dot_sum", self.vbias>> \o v_sample

(* [pre_sigm_v, sigmoid(pre_sigm_v)] *)
propdown(hid) ==
    LET pre_sigm_v == conv_downward(hid)
    IN [pre |-> pre_sigm_v, mean |-> sigmoid(pre_sigm_v)]

(* [pre_sigm_h, sigmoid(pre_sigm_h)] *)
propup(vis) ==
    LET pre_sigm_h == conv_upward(vis)
    IN [pre |-> pre_sigm_h, mean |-> sigmoid(pre_sigm_h)]

(* [pre_sigm_h1, h1_mean, h1_sample] *)
sample_h_given_v(v0_sample) ==
    LET up == propup(v0_sample)
    IN [pre |-> up.pre, mean |-> up.mean, sample |-> binomial(up.mean)]

(* [pre_sigm_v1, v1_mean, v1_sample] *)
sample_v_given_h(h0_sample) ==
    LET down == propdown(h0_sample)
    IN [pre |-> down.pre, mean |-> down.mean, sample |-> binomial(down.mean)]

(* A Gibbs step that draws the hidden units from the visible mean. *)
gibbs_hvh_from_mean(h0_sample) ==
    LET v == sample_v_given_h(h0_sample)
        h == sample_h_given_v(v.mean)
    IN [pre_sigmoid_v1 |-> v.pre, v1_mean |-> v.mean, v1_sample |-> v.sample,
        pre_sigmoid_h1 |-> h.pre, h1_mean |-> h.mean, h1_sample |-> h.sample]

(* One step of Gibbs sampling starting from the hidden state: the six      *)
(* outputs, the hidden sample drawn from the visible sample.               *)
gibbs_hvh(h0_sample) ==
    LET v == sample_v_given_h(h0_sample)
        h == sample_h_given_v(v.sample)
    IN [pre_sigmoid_v1 |-> v.pre, v1_mean |-> v.mean, v1_sample |-> v.sample,
        pre_sigmoid_h1 |-> h.pre, h1_mean |-> h.mean, h1_sample |-> h.sample]

(* Truth value Python gives "if persistent:": None is false, a Theano      *)
(* variable is true.                                                       *)
Truthy(x) == x # None

(* The exception the positive phase raises, or "none": conv2d rejects an   *)
(* input that is not 4D, and binomial is called on self.theano_rng.        *)
PositivePhaseError ==
    IF Ndim(self.input) # 4 THEN "TypeError"
    ELSE IF self.theano_rng = None THEN "AttributeError"
    ELSE "none"

(* get_cost_updates, lines 204-213: positive phase and chain_start *)
GcuBegin ==
    /\ pc \in {"ready", "returned", "raised"}
    /\ \E kk \in 1..MaxK, pp \in {None, "persistent_chain"} :
         /\ k' = kk
         /\ persistent' = pp
         /\ chain' = <<>>
         /\ chain_end' = NoExpr
         /\ updates' = NoUpdates
         /\ monitoring_cost' = NoExpr
         /\ IF PositivePhaseError # "none"
              THEN /\ exc' = PositivePhaseError
                   /\ pc' = "raised"
                   /\ chain_start' = NoExpr
              ELSE /\ exc' = "none"
                   /\ pc' = "scan"
                   /\ chain_start' =
                        IF pp = None
                          THEN sample_h_given_v(<<self.input>>).sample
                          ELSE <<pp>>
    /\ UNCHANGED <<args, self, created, store, nUpdates>>

(* One of the n_steps=k iterations of theano.scan over gibbs_hvh: the      *)
(* recurrent (6th) output of the previous iteration is the argument.       *)
ScanStep ==
    /\ pc = "scan"
    /\ Len(chain) < k
    /\ LET h0 == IF chain = <<>> THEN chain_start
                 ELSE chain[Len(chain)].h1_sample
       IN chain' = Append(chain, gibbs_hvh(h0))
    /\ UNCHANGED <<pc, exc, args, self, created, k, persistent, chain_start,
                   chain_end, updates, monitoring_cost, store, nUpdates>>

(* mean(free_energy(input)) - mean(free_energy(chain_end)) *)
CostOf(end) ==
    <<"mean">> \o free_energy(<<self.input>>)
        \o <<"minus_mean">> \o free_energy(end)

(* updates[param] = param - gparam * lr, gparam = grad(cost, param) with   *)
(* chain_end held constant                                                 *)
ParamUpdate(param, end) ==
    <<"sub", param, "lr_times_grad", param>> \o CostOf(end)

(* The scan's own updates (the random stream's state) with the entries of  *)
(* self.params added.                                                      *)
ParamUpdates(end) ==
    [v \in {"rng_state"} \cup {self.params[i] : i \in 1..Len(self.params)} |->
        IF v = "rng_state" THEN <<"rng_next">> ELSE ParamUpdate(v, end)]

(* get_pseudo_likelihood_cost(updates): bit_i_idx is created, then         *)
(* self.n_visible is read.                                                 *)
get_pseudo_likelihood_cost(upd) ==
    LET made == {[name |-> "bit_i_idx", shape |-> <<>>, value |-> "zero"]}
        fe_xi == free_energy(<<"round", self.input>>)
        fe_xi_flip == free_energy(<<"flip_bit_i", "round", self.input>>)
    IN IF self.n_visible = Unset
         THEN [raises |-> "AttributeError", cost |-> NoExpr,
               updates |-> NoUpdates, made |-> made]
         ELSE [raises |-> "none",
               cost |-> <<"pseudo_likelihood">> \o fe_xi_flip
                            \o <<"minus">> \o fe_xi,
               updates |-> ("bit_i_idx" :> <<"next_bit_i_idx">>) @@ upd,
               made |-> made]

(* get_reconstruction_cost(updates, pre_sigmoid_nv): cross entropy of the  *)
(* input against sigmoid(pre_sigmoid_nv)                                   *)
get_reconstruction_cost(upd, pre_sigmoid_nv) ==
    <<"cross_entropy", self.input, "sigmoid">> \o pre_sigmoid_nv

(* get_cost_updates, lines 230-253: cost, gradients, the update dictionary *)
(* and the monitoring cost.                                                *)
GcuFinish ==
    /\ pc = "scan"
    /\ Len(chain) = k
    /\ LET end == chain[k].v1_sample
           upd == ParamUpdates(end)
       IN /\ chain_end' = end
          /\ IF Truthy(persistent)
               THEN LET upd2 == (persistent :> chain[k].h1_sample) @@ upd
                        pl == get_pseudo_likelihood_cost(upd2)
                    IN /\ created' = created \cup pl.made
                       /\ IF pl.raises # "none"
                            THEN /\ exc' = pl.raises
                                 /\ pc' = "raised"
                                 /\ updates' = NoUpdates
                                 /\ monitoring_cost' = NoExpr
                            ELSE /\ exc' = "none"
                                 /\ pc' = "returned"
                                 /\ updates' = pl.updates
                                 /\ monitoring_cost' = pl.cost
               ELSE /\ exc' = "none"
                    /\ pc' = "returned"
                    /\ updates' = upd
                    /\ monitoring_cost' =
                         get_reconstruction_cost(upd, chain[k].pre_sigmoid_v1)
                    /\ UNCHANGED created
    /\ UNCHANGED <<args, self, k, persistent, chain_start, chain, store,
                   nUpdates>>

(* One training update: the returned update rules are applied, every       *)
(* shared variable with an entry gets a new value.                         *)
TrainStep ==
    /\ pc = "returned"
    /\ nUpdates < MaxUpdates
    /\ store' = [v \in SharedVars |->
                    IF v \in DOMAIN updates THEN store[v] + 1 ELSE store[v]]
    /\ nUpdates' = nUpdates + 1
    /\ UNCHANGED <<pc, exc, args, self, created, gcuVars>>

Next ==
    \/ CRBM_init
    \/ GcuBegin
    \/ ScanStep
    \/ GcuFinish
    \/ TrainStep

Spec == Init /\ [][Next]_vars

(* A get_cost_updates call has ended, by return or by exception. *)
GcuEnded == pc \in {"returned", "raised"}

(* The object can run the positive phase: 4D input, a random stream. *)
Usable == Ndim(self.input) = 4 /\ self.theano_rng # None

(* The last tokens of an expression, as many as sub has. *)
EndsWith(e, sub) ==
    /\ Len(e) >= Len(sub)
    /\ SubSeq(e, Len(e) - Len(sub) + 1, Len(e)) = sub

(* C1: get_cost_updates with k >= 1 returns (monitoring cost, updates)     *)
(* without raising in CD mode and in PCD mode; the dictionary has an entry *)
(* for W, hbias and vbias, and one for the persistent variable exactly     *)
(* when a persistent variable was passed.                                  *)
C1_ReturnsCostAndUpdates ==
    (GcuEnded /\ Usable) =>
        /\ pc = "returned"
        /\ exc = "none"
        /\ monitoring_cost # NoExpr
        /\ \A i \in 1..3 : self.params[i] \in DOMAIN updates
        /\ ("persistent_chain" \in DOMAIN updates) <=> (persistent # None)

(* C2: in PCD mode the chain starts from the persistent variable and the   *)
(* returned updates set the persistent variable to the hidden sample of    *)
(* the k-th Gibbs step; in CD mode the chain starts from the hidden sample *)
(* of the current input and the updates carry no chain state.              *)
C2_PersistentChainCarried ==
    (GcuEnded /\ Usable) =>
        IF persistent = None
          THEN /\ chain_start = <<"binomial", "sigmoid", "conv_up", self.W,
                                  self.hbias, self.input>>
               /\ "persistent_chain" \notin DOMAIN updates
          ELSE /\ chain_start = <<persistent>>
               /\ pc = "returned"
               /\ persistent \in DOMAIN updates
               /\ updates[persistent] = chain[k].h1_sample

(* C3: the negative phase runs exactly k Gibbs steps in sequence: step 1   *)
(* takes chain_start, step i+1 the hidden sample of step i; within a step  *)
(* the visible sample is drawn from the hidden input and the hidden sample *)
(* from that visible sample; chain_end, used in the cost, is the visible   *)
(* sample of step k.                                                       *)
C3_GibbsChain ==
    /\ Len(chain) <= k
    /\ \A i \in 1..Len(chain) :
         LET hin == IF i = 1 THEN chain_start ELSE chain[i - 1].h1_sample
             s == chain[i]
         IN /\ s.pre_sigmoid_v1 = <<"conv_down", self.W, self.vbias>> \o hin
            /\ s.v1_mean = <<"sigmoid">> \o s.pre_sigmoid_v1
            /\ s.v1_sample = <<"binomial">> \o s.v1_mean
            /\ s.pre_sigmoid_h1 =
                 <<"conv_up", self.W, self.hbias>> \o s.v1_sample
            /\ s.h1_mean = <<"sigmoid">> \o s.pre_sigmoid_h1
            /\ s.h1_sample = <<"binomial">> \o s.h1_mean
    /\ (GcuEnded /\ chain # <<>>) =>
         /\ Len(chain) = k
         /\ chain_end = chain[k].v1_sample
    /\ pc = "returned" =>
         /\ Len(chain) = k
         /\ \A i \in 1..3 :
              EndsWith(updates[self.params[i]], chain[k].v1_sample)

(* C3 witness: a call returned after a chain of at least two steps. *)
C3_Witness == pc = "returned" /\ k >= 2 /\ Len(chain) = k

(* C4: with IS[1] # FS[1] the constructor fails with an assertion error    *)
(* before any attribute is set or any shared variable is created; with     *)
(* IS[1] = FS[1] the assertion passes.                                     *)
C4_ConstructorRejectsMismatch ==
    pc # "new" =>
        IF args.IS[2] # args.FS[2]
          THEN /\ pc = "ctor_failed"
               /\ exc = "AssertionError"
               /\ self = NewSelf
               /\ created = {}
          ELSE exc # "AssertionError"

(* C4 witness: a constructor call with mismatched feature-map counts has   *)
(* failed.                                                                 *)
C4_Witness ==
    /\ pc = "ctor_failed"
    /\ exc = "AssertionError"
    /\ args.IS[2] # args.FS[2]

(* C5: constructed with input=None, the object's input placeholder has as  *)
(* many dimensions as image_shape IS (4).                                  *)
C5_PlaceholderHasImageDims ==
    (pc \notin {"new", "ctor_failed"} /\ args.input = None) =>
        /\ Ndim(self.input) = Len(self.IS)
        /\ Ndim(self.input) = 4

(* C6: each of W, hbias, vbias that is passed in is stored as the same     *)
(* variable and no shared variable is created for it; each one that is     *)
(* None is created fresh (W of shape FS, hbias FS[0] zeros, vbias FS[1]    *)
(* zeros); params is [W, hbias, vbias], the entries get_cost_updates       *)
(* updates.                                                                *)
C6_ParameterSharing ==
    (pc # "new" /\ args.IS[2] = args.FS[2]) =>
        /\ self.W = (IF args.W = None THEN "new_W" ELSE args.W)
        /\ self.hbias = (IF args.hbias = None THEN "new_hbias" ELSE args.hbias)
        /\ self.vbias = (IF args.vbias = None THEN "new_vbias" ELSE args.vbias)
        /\ {r \in created : r.name = "new_W"} =
             (IF args.W = None
                THEN {[name |-> "new_W", shape |-> args.FS,
                       value |-> "uniform"]}
                ELSE {})
        /\ {r \in created : r.name = "new_hbias"} =
             (IF args.hbias = None
                THEN {[name |-> "new_hbias", shape |-> <<args.FS[1]>>,
                       value |-> "zeros"]}
                ELSE {})
        /\ {r \in created : r.name = "new_vbias"} =
             (IF args.vbias = None
                THEN {[name |-> "new_vbias", shape |-> <<args.FS[2]>>,
                       value |-> "zeros"]}
                ELSE {})
        /\ self.params = <<self.W, self.hbias, self.vbias>>
        /\ pc = "returned" =>
             \A i \in 1..3 : self.params[i] \in DOMAIN updates

(* C7: in CD mode the monitoring cost is the reconstruction cross-entropy  *)
(* of the pre-sigmoid visible activation of the k-th Gibbs step; in PCD    *)
(* mode it is the pseudo-likelihood cost and no reconstruction cost.       *)
C7_MonitoringCostChoice ==
    (GcuEnded /\ Usable) =>
        /\ pc = "returned"
        /\ monitoring_cost # NoExpr
        /\ IF persistent = None
             THEN monitoring_cost =
                    <<"cross_entropy", self.input, "sigmoid">>
                        \o chain[k].pre_sigmoid_v1
             ELSE /\ monitoring_cost[1] = "pseudo_likelihood"
                  /\ \A i \in 1..Len(monitoring_cost) :
                       monitoring_cost[i] # "cross_entropy"
====
